---- MODULE Spec2Model ----
(***************************************************************************)
(* Model of hooks/lib/ios/xcodePreferences.js: the hook that locates the   *)
(* .xcodeproj bundle of a cordova iOS project and raises the deployment    *)
(* target of every build configuration of its project.pbxproj.             *)
(*                                                                         *)
(* Strings that the code inspects are kept as sequences: a directory entry *)
(* or a section key is a sequence of tokens ("App" ".xcodeproj"), a path   *)
(* is a sequence of entries, a version is a sequence of characters.        *)
(***************************************************************************)
EXTENDS Integers, Sequences, FiniteSets, TLC

VARIABLES
    fsKind,      \* directory path -> "dir" | "file" | "missing"
    fsList,      \* directory path -> listing (sequence of entry names)
    disk,        \* project.pbxproj path -> file content
    ctxProject,  \* the project handle cached by the build context
    hist         \* one record per finished invocation of the hook

vars == <<fsKind, fsList, disk, ctxProject, hist>>

\* ---------------------------------------------------------------- bounds
MaxEntries == 2     \* entries of the XCBuildConfiguration section
MaxList == 2        \* entries of the searched directory
MaxRuns == 2        \* invocations of the hook in one behaviour

\* ------------------------------------------------------------ option type
None == <<>>
Some(x) == <<x>>

\* ------------------------------------------------- versions and comparison
IOS_DEPLOYMENT_TARGET == <<"8", ".", "0">>

V7_10 == <<"7", ".", "1", "0">>
V8_2 == <<"8", ".", "2">>
V8_10 == <<"8", ".", "1", "0">>
V10_0 == <<"1", "0", ".", "0">>

Versions == {V7_10, IOS_DEPLOYMENT_TARGET, V8_2, V8_10, V10_0}

Digits == {"0", "1", "2", "3", "4", "5", "6", "7", "8", "9"}

DigitValue(c) ==
    CASE c = "0" -> 0 [] c = "1" -> 1 [] c = "2" -> 2 [] c = "3" -> 3
      [] c = "4" -> 4 [] c = "5" -> 5 [] c = "6" -> 6 [] c = "7" -> 7
      [] c = "8" -> 8 [] c = "9" -> 9

\* Character codes, for the order JavaScript's < puts on strings.
CharCode(c) == IF c = "." THEN 46 ELSE 48 + DigitValue(c)

\* s.split('.'): the segments of s between the dots.
RECURSIVE splitFrom(_, _, _, _)
splitFrom(s, i, cur, acc) ==
    IF i > Len(s) THEN Append(acc, cur)
    ELSE IF s[i] = "." THEN splitFrom(s, i + 1, <<>>, Append(acc, cur))
    ELSE splitFrom(s, i + 1, Append(cur, s[i]), acc)

split(s) == splitFrom(s, 1, <<>>, <<>>)

\* parseInt(seg, 10) of a run of decimal digits.
RECURSIVE parseIntFrom(_, _, _)
parseIntFrom(seg, i, n) ==
    IF i > Len(seg) \/ seg[i] \notin Digits THEN n
    ELSE parseIntFrom(seg, i + 1, 10 * n + DigitValue(seg[i]))

parseInt(seg) == parseIntFrom(seg, 1, 0)

RECURSIVE compareParts(_, _, _)
compareParts(a, b, i) ==
    IF i > Len(a) /\ i > Len(b) THEN 0
    ELSE IF i > Len(a) THEN -1
    ELSE IF i > Len(b) THEN 1
    ELSE IF parseInt(a[i]) < parseInt(b[i]) THEN -1
    ELSE IF parseInt(a[i]) > parseInt(b[i]) THEN 1
    ELSE compareParts(a, b, i + 1)

\* node-version-compare: -1, 0 or 1 by the numeric order of the segments.
compare(v1, v2) == compareParts(split(v1), split(v2), 1)

\* The order of v1 < v2 on JavaScript strings (character by character).
RECURSIVE stringCompareFrom(_, _, _)
stringCompareFrom(a, b, i) ==
    IF i > Len(a) /\ i > Len(b) THEN 0
    ELSE IF i > Len(a) THEN -1
    ELSE IF i > Len(b) THEN 1
    ELSE IF CharCode(a[i]) < CharCode(b[i]) THEN -1
    ELSE IF CharCode(a[i]) > CharCode(b[i]) THEN 1
    ELSE stringCompareFrom(a, b, i + 1)

ShouldRaise_string(value) == stringCompareFrom(value, IOS_DEPLOYMENT_TARGET, 1) = -1

ShouldRaise_swapped(value) == compare(IOS_DEPLOYMENT_TARGET, value) = -1

ShouldRaise_orEqual(value) == compare(value, IOS_DEPLOYMENT_TARGET) # 1

\* compare(buildSettings['IPHONEOS_DEPLOYMENT_TARGET'], IOS_DEPLOYMENT_TARGET) === -1
ShouldRaise(value) == compare(value, IOS_DEPLOYMENT_TARGET) = -1

\* ------------------------------------------------------ the parsed project
TARGET == "IPHONEOS_DEPLOYMENT_TARGET"
PRODUCT == "PRODUCT_NAME"
COMMENT_SUFFIX == "_comment"

SectionKeys ==
    {<<"K1">>, <<"K1", COMMENT_SUFFIX>>, <<"K2">>, <<"K2", COMMENT_SUFFIX>>}

\* COMMENT_KEY.test(key), COMMENT_KEY = /_comment$/
COMMENT_KEY(key) == Len(key) > 0 /\ key[Len(key)] = COMMENT_SUFFIX

\* A value of the section: a configuration object or a comment string.
ObjectValue(bs) == [isObject |-> TRUE, text |-> "", buildSettings |-> bs]
StringValue(s) == [isObject |-> FALSE, text |-> s, buildSettings |-> <<>>]

OtherSettings == (PRODUCT :> <<"A">>)

BuildSettingsChoices ==
    {OtherSettings} \cup {(TARGET :> v) @@ OtherSettings : v \in Versions}

\* A key that does not end in _comment holds a configuration object (the
\* parser's output); a key that does may hold a string or an object.
ValuesFor(key) ==
    {ObjectValue(bs) : bs \in BuildSettingsChoices}
        \cup (IF COMMENT_KEY(key) THEN {StringValue("Debug")} ELSE {})

RECURSIVE SectionsOfLen(_)
SectionsOfLen(n) ==
    IF n = 0 THEN {<<>>}
    ELSE UNION { UNION { {Append(s, [key |-> k, val |-> v]) : v \in ValuesFor(k)}
                         : k \in SectionKeys \ {s[i].key : i \in DOMAIN s} }
                 : s \in SectionsOfLen(n - 1) }

Sections == UNION {SectionsOfLen(n) : n \in 0..MaxEntries}

\* A few sections for the behaviours that vary the file system instead.
SampleSections ==
    { <<[key |-> <<"K1">>, val |-> ObjectValue(OtherSettings)],
        [key |-> <<"K1", COMMENT_SUFFIX>>, val |-> StringValue("Debug")]>>,
      <<[key |-> <<"K1">>, val |-> ObjectValue((TARGET :> V10_0) @@ OtherSettings)]>> }

\* ------------------------------------------- project.pbxproj text and back
SettingOrder == <<PRODUCT, TARGET>>

SettingLines(bs) ==
    LET names == SelectSeq(SettingOrder, LAMBDA n : n \in DOMAIN bs)
    IN  [i \in DOMAIN names |-> [name |-> names[i], value |-> bs[names[i]]]]

\* pbxProject.writeSync(): one line per entry of the section.
writeSync(section) ==
    [ok |-> TRUE,
     lines |-> [i \in DOMAIN section |->
                   [key |-> section[i].key,
                    isObject |-> section[i].val.isObject,
                    text |-> section[i].val.text,
                    settings |-> IF section[i].val.isObject
                                 THEN SettingLines(section[i].val.buildSettings)
                                 ELSE <<>>]]]

SettingsOf(settings) ==
    [n \in {settings[i].name : i \in DOMAIN settings} |->
        settings[CHOOSE i \in DOMAIN settings : settings[i].name = n].value]

\* pbxProject.parseSync() on a well-formed file: the section the text holds.
parseLines(lines) ==
    [i \in DOMAIN lines |->
        [key |-> lines[i].key,
         val |-> IF lines[i].isObject
                 THEN ObjectValue(SettingsOf(lines[i].settings))
                 ELSE StringValue(lines[i].text)]]

Malformed == [ok |-> FALSE, lines |-> <<>>]

\* ------------------------------------------------------------ file system
XCODEPROJ == ".xcodeproj"
PBXPROJ == <<"project.pbxproj">>

projectRoot == <<<<"proj">>>>

\* path.join of a directory and the names below it
join(dir, names) == dir \o names

\* path.join(context.opts.projectRoot, 'platforms/ios/')
iosPlatform == join(projectRoot, <<<<"platforms">>, <<"ios">>>>)

Dirs == {projectRoot, iosPlatform}

EntryNames ==
    { <<"App", XCODEPROJ>>, <<"Lib", XCODEPROJ>>, <<"App", XCODEPROJ, ".bak">>,
      <<XCODEPROJ>>, <<"www">> }

RECURSIVE ListingsOfLen(_)
ListingsOfLen(n) ==
    IF n = 0 THEN {<<>>}
    ELSE UNION { {Append(l, e) : e \in EntryNames \ {l[i] : i \in DOMAIN l}}
                 : l \in ListingsOfLen(n - 1) }

Listings == UNION {ListingsOfLen(n) : n \in 0..MaxList}

\* folder.match(/\.xcodeproj$/)
matchXcodeproj(folder) == Len(folder) > 0 /\ folder[Len(folder)] = XCODEPROJ

\* path.basename(folder, ext) of a name without separators
basename(folder, ext) ==
    IF Len(folder) > 0 /\ folder[Len(folder)] = ext
    THEN SubSeq(folder, 1, Len(folder) - 1)
    ELSE folder

\* fs.existsSync(p)
existsSync(p) == fsKind[p] # "missing"

\* The error fs.readdirSync / fs.statSync raise on p, None when they succeed.
readdirError(p) ==
    IF fsKind[p] = "missing" THEN Some([name |-> "ENOENT", path |-> p])
    ELSE IF fsKind[p] = "file" THEN Some([name |-> "ENOTDIR", path |-> p])
    ELSE None

\* directoryExists(path): "true", "false", or "throw" (the catch block calls
\* logMe, which is defined nowhere: a ReferenceError leaves the function).
directoryExists(p) ==
    IF fsKind[p] = "missing" THEN "throw"
    ELSE IF fsKind[p] = "dir" THEN "true" ELSE "false"

\* ---------------------------------------------- activateAssociativeDomains
\* nonComments(obj): the entries whose key does not match COMMENT_KEY.
nonComments_all(obj) == obj

nonComments(obj) == SelectSeq(obj, LAMBDA e : ~COMMENT_KEY(e.key))

\* buildSettings of the record stored under key `config`.  The objects of
\* `configurations` are the objects of the project, so the loop reads and
\* writes the project itself.
buildSettingsOf(pbx, config) ==
    pbx[CHOOSE i \in DOMAIN pbx : pbx[i].key = config].val.buildSettings

\* buildSettings['IPHONEOS_DEPLOYMENT_TARGET'] = IOS_DEPLOYMENT_TARGET
setTarget(pbx, config) ==
    [i \in DOMAIN pbx |->
        IF pbx[i].key = config
        THEN [pbx[i] EXCEPT !.val.buildSettings =
                  (TARGET :> IOS_DEPLOYMENT_TARGET) @@ pbx[i].val.buildSettings]
        ELSE pbx[i]]

\* if (buildSettings['IPHONEOS_DEPLOYMENT_TARGET']): present and not ''
hasTarget(buildSettings) ==
    TARGET \in DOMAIN buildSettings /\ buildSettings[TARGET] # <<>>

\* One pass of the body of  for (var config in configurations).
loopBody(st, config) ==
    LET buildSettings == buildSettingsOf(st.pbx, config)
        raise == [st EXCEPT !.pbx = setTarget(st.pbx, config),
                            !.deploymentTargetIsUpdated = TRUE,
                            !.updated = @ \cup {config},
                            !.compared = Append(@, config)]
        leave == [st EXCEPT !.compared = Append(@, config)]
    IN  IF hasTarget(buildSettings)
        THEN IF ShouldRaise(buildSettings[TARGET]) THEN raise ELSE leave
        ELSE raise

RECURSIVE forIn(_, _, _)
forIn(configurations, i, st) ==
    IF i > Len(configurations) THEN st
    ELSE forIn(configurations, i + 1, loopBody(st, configurations[i].key))

\* if (deploymentTargetIsUpdated) console.log(...)
shouldLog_always(deploymentTargetIsUpdated) == TRUE

shouldLog(deploymentTargetIsUpdated) == deploymentTargetIsUpdated

\* fs.writeFileSync(projectPath, pbxProject.writeSync()) is unconditional.
shouldWrite_ifUpdated(deploymentTargetIsUpdated) == deploymentTargetIsUpdated

shouldWrite(deploymentTargetIsUpdated) == TRUE

\* The project handle: the build context's, or the file parsed afresh.
obtainProject(projectPath) ==
    IF ctxProject.present
    THEN IF ctxProject.throws
         THEN [error |-> Some([name |-> "parseProjectFile", path |-> projectRoot]),
               pbx |-> None, event |-> "parseProjectFile"]
         ELSE [error |-> None, pbx |-> Some(ctxProject.xcode),
               event |-> "parseProjectFile"]
    ELSE IF projectPath \notin DOMAIN disk
         THEN [error |-> Some([name |-> "ENOENT", path |-> projectPath]),
               pbx |-> None, event |-> "parseSync"]
         ELSE IF ~disk[projectPath].ok
              THEN [error |-> Some([name |-> "SyntaxError", path |-> projectPath]),
                    pbx |-> None, event |-> "parseSync"]
              ELSE [error |-> None, pbx |-> Some(parseLines(disk[projectPath].lines)),
                    event |-> "parseSync"]

NotActivated ==
    [entered |-> FALSE, error |-> None, events |-> <<>>, before |-> None,
     after |-> None, updated |-> {}, compared |-> <<>>, notices |-> 0,
     written |-> None]

activateAssociativeDomains(projFolder) ==
    LET projectPath == join(projFolder, <<PBXPROJ>>)
        got == obtainProject(projectPath)
    IN  IF got.error # None
        THEN [NotActivated EXCEPT !.entered = TRUE, !.error = got.error,
                                  !.events = <<got.event>>]
        ELSE
        LET pbxProject == got.pbx[1]
            configurations == nonComments(pbxProject)
            st == forIn(configurations, 1,
                        [pbx |-> pbxProject, deploymentTargetIsUpdated |-> FALSE,
                         updated |-> {}, compared |-> <<>>])
            logs == shouldLog(st.deploymentTargetIsUpdated)
            writes == shouldWrite(st.deploymentTargetIsUpdated)
        IN  [entered |-> TRUE, error |-> None,
             events |-> <<got.event>>
                        \o (IF logs THEN <<"console.log">> ELSE <<>>)
                        \o (IF writes THEN <<"writeFileSync">> ELSE <<>>),
             before |-> Some(pbxProject), after |-> Some(st.pbx),
             updated |-> st.updated, compared |-> st.compared,
             notices |-> IF logs THEN 1 ELSE 0,
             written |-> IF writes
                         THEN Some([path |-> projectPath, content |-> writeSync(st.pbx)])
                         ELSE None]

\* ---------------------------------------- enableAssociativeDomainsCapability
iosFolder_platform == iosPlatform

\* fs.existsSync(iosPlatform) ? iosPlatform : context.opts.projectRoot
iosFolder == IF existsSync(iosPlatform) THEN iosPlatform ELSE projectRoot

scanStep_first(acc, dir, folder) ==
    IF matchXcodeproj(folder) /\ acc.projFolder = None
    THEN [projFolder |-> Some(join(dir, <<folder>>)),
          projName |-> Some(basename(folder, XCODEPROJ))]
    ELSE acc

\* The callback of data.forEach.
scanStep(acc, dir, folder) ==
    IF matchXcodeproj(folder)
    THEN [projFolder |-> Some(join(dir, <<folder>>)),
          projName |-> Some(basename(folder, XCODEPROJ))]
    ELSE acc

RECURSIVE forEach(_, _, _, _)
forEach(data, i, dir, acc) ==
    IF i > Len(data) THEN acc
    ELSE forEach(data, i + 1, dir, scanStep(acc, dir, data[i]))

\* !projFolder || !projName   (null and '' are falsy)
notFound(found) ==
    found.projFolder = None \/ found.projName = None \/ found.projName = Some(<<>>)

NotFoundError_root(dir) ==
    [name |-> "Could not find an .xcodeproj folder in: ", path |-> projectRoot]

\* new Error("Could not find an .xcodeproj folder in: " + iosFolder)
NotFoundError(dir) ==
    [name |-> "Could not find an .xcodeproj folder in: ", path |-> dir]

\* The record of one invocation: what it computed, raised and did.
hookRun ==
    LET base == [platform |-> fsKind[iosPlatform], iosFolder |-> iosFolder,
                 data |-> None, projFolder |-> None, projName |-> None,
                 outcome |-> "error", error |-> None,
                 events |-> <<"existsSync", "readdirSync">>,
                 act |-> NotActivated]
    IN  IF readdirError(iosFolder) # None
        THEN [base EXCEPT !.error = readdirError(iosFolder)]
        ELSE
        LET data == fsList[iosFolder]
            found == forEach(data, 1, iosFolder, [projFolder |-> None, projName |-> None])
            scanned == [base EXCEPT !.data = Some(data),
                                    !.projFolder = found.projFolder,
                                    !.projName = found.projName]
        IN  IF notFound(found)
            THEN [scanned EXCEPT !.error = Some(NotFoundError(iosFolder))]
            ELSE
            LET isDir == directoryExists(iosFolder)
                stat == [scanned EXCEPT !.events = Append(@, "statSync")]
            IN  IF isDir = "throw"
                THEN [stat EXCEPT !.error =
                          Some([name |-> "ReferenceError: logMe", path |-> iosFolder])]
                ELSE IF isDir = "false"
                THEN [stat EXCEPT !.outcome = "ok"]
                ELSE
                LET act == activateAssociativeDomains(found.projFolder[1])
                IN  [stat EXCEPT !.act = act,
                                 !.events = @ \o act.events,
                                 !.error = act.error,
                                 !.outcome = IF act.error = None THEN "ok" ELSE "error"]

enableAssociativeDomainsCapability ==
    /\ Len(hist) < MaxRuns
    /\ LET run == hookRun
       IN  /\ hist' = Append(hist, run)
           /\ disk' = IF run.act.written = None THEN disk
                      ELSE (run.act.written[1].path :> run.act.written[1].content) @@ disk
           /\ ctxProject' = IF ctxProject.present /\ run.act.after # None
                            THEN [ctxProject EXCEPT !.xcode = run.act.after[1]]
                            ELSE ctxProject
    /\ UNCHANGED <<fsKind, fsList>>

\* ------------------------------------------------------------------ Init
\* project.pbxproj of every bundle listed in either directory
bundlePaths(lists) ==
    UNION { { join(d, <<lists[d][i], PBXPROJ>>) :
                i \in {j \in DOMAIN lists[d] : matchXcodeproj(lists[d][j])} }
            : d \in Dirs }

diskOf(lists, fileState, section) ==
    IF fileState = "missing" THEN <<>>
    ELSE [p \in bundlePaths(lists) |->
             IF fileState = "ok" THEN writeSync(section) ELSE Malformed]

OtherListing == <<<<"platforms">>, <<"Other", XCODEPROJ>>>>

\* An iOS platform folder with one bundle; any section in the project.
InitPatch ==
    \E section \in Sections, present \in BOOLEAN :
        /\ fsKind = [d \in Dirs |-> "dir"]
        /\ fsList = (iosPlatform :> <<<<"App", XCODEPROJ>>>>)
                        @@ (projectRoot :> OtherListing)
        /\ disk = diskOf(fsList, "ok", section)
        /\ ctxProject = [present |-> present, throws |-> FALSE, xcode |-> section]
        /\ hist = <<>>

\* Any layout of the two directories; a sample section in the project.
InitLocate ==
    \E rootKind \in {"dir", "missing"}, platformKind \in {"dir", "file", "missing"},
       listing \in Listings, section \in SampleSections,
       fileState \in {"ok", "malformed", "missing"},
       ctx \in {"absent", "present", "throws"} :
        /\ rootKind = "missing" => platformKind = "missing"
        /\ rootKind = "missing" => listing = <<>>
        /\ platformKind = "file" => listing = <<>>
        /\ fsKind = (iosPlatform :> platformKind) @@ (projectRoot :> rootKind)
        /\ fsList = IF platformKind = "dir"
                    THEN (iosPlatform :> listing) @@ (projectRoot :> OtherListing)
                    ELSE (iosPlatform :> <<>>) @@ (projectRoot :> listing)
        /\ disk = diskOf(fsList, fileState, section)
        /\ ctxProject = [present |-> ctx # "absent", throws |-> ctx = "throws",
                         xcode |-> section]
        /\ hist = <<>>

Init == InitPatch \/ InitLocate

Next == enableAssociativeDomainsCapability

Spec == Init /\ [][Next]_vars

\* ---------------------------------------------------------------- claims
Count(events, e) == Cardinality({i \in DOMAIN events : events[i] = e})

Last(seq) == seq[Len(seq)]

IsCommentKey(key) == key[Len(key)] = "_comment"

EndsInXcodeproj(name) == name[Len(name)] = ".xcodeproj"

Below(value) == compare(value, IOS_DEPLOYMENT_TARGET) = -1

\* The runs that got a project handle and went through the loop.
Patched == {r \in DOMAIN hist : hist[r].act.after # None}

\* The runs that listed the searched directory.
Listed == {r \in DOMAIN hist : hist[r].data # None}

\* C1: after activateAssociativeDomains, every non-comment record whose
\* deployment target was absent or strictly below the threshold holds exactly
\* the threshold, every other record holds the value it had; so no value is
\* lowered and every record ends at a value >= the threshold.
C1_TargetRaisedToThreshold ==
    \A r \in Patched :
        LET before == hist[r].act.before[1]
            after == hist[r].act.after[1]
        IN  /\ Len(after) = Len(before)
            /\ \A i \in DOMAIN before :
                 ~IsCommentKey(before[i].key) =>
                    LET old == before[i].val.buildSettings
                        new == after[i].val.buildSettings
                    IN  /\ after[i].key = before[i].key
                        /\ TARGET \in DOMAIN new
                        /\ IF TARGET \notin DOMAIN old \/ Below(old[TARGET])
                           THEN new[TARGET] = IOS_DEPLOYMENT_TARGET
                           ELSE new[TARGET] = old[TARGET]
                        /\ ~Below(new[TARGET])
                        /\ TARGET \in DOMAIN old => compare(new[TARGET], old[TARGET]) # -1

\* A run over one record without a target and one record above the threshold.
C1_Witness ==
    \E r \in Patched :
        LET before == hist[r].act.before[1]
        IN  /\ \E i \in DOMAIN before :
                 ~IsCommentKey(before[i].key) /\ TARGET \notin DOMAIN before[i].val.buildSettings
            /\ \E i \in DOMAIN before :
                 /\ ~IsCommentKey(before[i].key)
                 /\ TARGET \in DOMAIN before[i].val.buildSettings
                 /\ before[i].val.buildSettings[TARGET] = V10_0

\* C2 as stated: when platforms/ios does not exist the hook reads and writes
\* no project descriptor and returns without raising an error.
C2_SilentWithoutPlatform ==
    \A r \in DOMAIN hist :
        hist[r].platform = "missing" =>
            /\ hist[r].outcome = "ok"
            /\ ~hist[r].act.entered
            /\ hist[r].act.written = None

\* C2 amended: when platforms/ios does not exist the hook searches the project
\* root instead; it returns without error only after it has patched and
\* written the project.pbxproj of an .xcodeproj bundle listed in the root, and
\* if the root lists no .xcodeproj entry it raises an error having read and
\* written no descriptor.
C2_FallsBackToProjectRoot ==
    \A r \in DOMAIN hist :
        hist[r].platform = "missing" =>
            /\ hist[r].iosFolder = <<<<"proj">>>>
            /\ hist[r].outcome = "ok" =>
                 /\ hist[r].act.after # None
                 /\ hist[r].act.written # None
                 /\ \E i \in DOMAIN fsList[projectRoot] :
                      /\ EndsInXcodeproj(fsList[projectRoot][i])
                      /\ hist[r].act.written[1].path =
                            <<<<"proj">>, fsList[projectRoot][i], <<"project.pbxproj">>>>
            /\ (\A i \in DOMAIN fsList[projectRoot] : ~EndsInXcodeproj(fsList[projectRoot][i])) =>
                 /\ hist[r].outcome = "error"
                 /\ ~hist[r].act.entered
                 /\ hist[r].act.written = None

\* Without platforms/ios, a bundle in the project root is patched and written.
C2_Witness ==
    \E r \in DOMAIN hist :
        /\ hist[r].platform = "missing"
        /\ hist[r].outcome = "ok"
        /\ hist[r].act.written # None
        /\ hist[r].act.updated # {}

\* C3: the patch is idempotent: a run of activateAssociativeDomains on the
\* project the previous run produced leaves every record as that run left it
\* and marks no record as updated.
C3_PatchIdempotent ==
    \A r \in Patched :
        (r > 1 /\ (r - 1) \in Patched) =>
            /\ hist[r].act.before = hist[r - 1].act.after
            /\ hist[r].act.after = hist[r - 1].act.after
            /\ hist[r].act.updated = {}
            /\ hist[r].act.notices = 0

\* Two runs in a row, the first of which raised a record.
C3_Witness ==
    \E r \in Patched :
        /\ r > 1
        /\ (r - 1) \in Patched
        /\ hist[r - 1].act.updated # {}

\* Every non-comment record of the section has a target >= the threshold.
AllAtLeastThreshold(section) ==
    \A i \in DOMAIN section :
        ~IsCommentKey(section[i].key) =>
            /\ TARGET \in DOMAIN section[i].val.buildSettings
            /\ ~Below(section[i].val.buildSettings[TARGET])

\* C4: when every configuration record already has a deployment target >= the
\* threshold, activateAssociativeDomains changes no value and emits no notice,
\* but still writes the serialized project to project.pbxproj exactly once.
C4_NoChangeStillWritten ==
    \A r \in Patched :
        AllAtLeastThreshold(hist[r].act.before[1]) =>
            /\ hist[r].act.after = hist[r].act.before
            /\ hist[r].act.notices = 0
            /\ Count(hist[r].events, "console.log") = 0
            /\ Count(hist[r].events, "writeFileSync") = 1
            /\ hist[r].act.written =
                  Some([path |-> hist[r].projFolder[1] \o <<<<"project.pbxproj">>>>,
                        content |-> writeSync(hist[r].act.before[1])])
            /\ r = Len(hist) =>
                  /\ hist[r].act.written[1].path \in DOMAIN disk
                  /\ disk[hist[r].act.written[1].path] = hist[r].act.written[1].content

\* A run over two records, at and above the threshold.
C4_Witness ==
    \E r \in Patched :
        LET before == hist[r].act.before[1]
        IN  /\ AllAtLeastThreshold(before)
            /\ \E i, j \in DOMAIN before :
                 /\ ~IsCommentKey(before[i].key)
                 /\ ~IsCommentKey(before[j].key)
                 /\ before[i].val.buildSettings[TARGET] = IOS_DEPLOYMENT_TARGET
                 /\ before[j].val.buildSettings[TARGET] = V8_10

\* C5: when the searched directory (platforms/ios if it exists, else the
\* project root) lists no entry ending in .xcodeproj, the hook raises an error
\* whose message holds the searched directory, and activateAssociativeDomains
\* is never entered (no parse, no write).
C5_NotFoundNamesSearchedDir ==
    \A r \in Listed :
        (\A i \in DOMAIN hist[r].data[1] : ~EndsInXcodeproj(hist[r].data[1][i])) =>
            /\ hist[r].iosFolder = IF hist[r].platform = "missing"
                                   THEN <<<<"proj">>>>
                                   ELSE <<<<"proj">>, <<"platforms">>, <<"ios">>>>
            /\ hist[r].data[1] = fsList[hist[r].iosFolder]
            /\ hist[r].outcome = "error"
            /\ hist[r].error = Some([name |-> "Could not find an .xcodeproj folder in: ",
                                     path |-> hist[r].iosFolder])
            /\ ~hist[r].act.entered
            /\ Count(hist[r].events, "parseSync") = 0
            /\ Count(hist[r].events, "parseProjectFile") = 0
            /\ Count(hist[r].events, "writeFileSync") = 0
            /\ hist[r].act.written = None

\* platforms/ios exists and lists only a near miss of the suffix.
C5_Witness ==
    \E r \in Listed :
        /\ hist[r].platform = "dir"
        /\ hist[r].data[1] = <<<<"App", ".xcodeproj", ".bak">>, <<"www">>>>
        /\ hist[r].outcome = "error"

\* C6: entries of the section whose key ends in _comment are never passed to
\* the comparison/update loop and hold the same value after the patch.
C6_CommentsUntouched ==
    \A r \in Patched :
        LET before == hist[r].act.before[1]
            after == hist[r].act.after[1]
        IN  \A i \in DOMAIN before :
                IsCommentKey(before[i].key) =>
                    /\ \A j \in DOMAIN hist[r].act.compared :
                          hist[r].act.compared[j] # before[i].key
                    /\ before[i].key \notin hist[r].act.updated
                    /\ after[i] = before[i]

\* A comment key that holds an object with a target below the threshold, next
\* to a record that the run raised.
C6_Witness ==
    \E r \in Patched :
        LET before == hist[r].act.before[1]
        IN  /\ hist[r].act.updated # {}
            /\ \E i \in DOMAIN before :
                 /\ IsCommentKey(before[i].key)
                 /\ before[i].val.isObject
                 /\ TARGET \in DOMAIN before[i].val.buildSettings
                 /\ before[i].val.buildSettings[TARGET] = V7_10

Matching(data) == {i \in DOMAIN data : EndsInXcodeproj(data[i])}

Max(S) == CHOOSE m \in S : \A n \in S : n <= m

\* C8: among the entries of the searched directory that end in .xcodeproj the
\* locator selects the last one of the listing: the bundle path is the searched
\* directory joined with that entry, the project name is the entry without the
\* suffix; and the bundle of a run that goes on is that one.
C8_LastMatchSelected ==
    \A r \in Listed :
        LET data == hist[r].data[1]
        IN  IF Matching(data) = {}
            THEN hist[r].projFolder = None /\ hist[r].projName = None
            ELSE LET entry == data[Max(Matching(data))]
                 IN  /\ hist[r].projFolder = Some(hist[r].iosFolder \o <<entry>>)
                     /\ hist[r].projName # None
                     /\ hist[r].projName[1] \o <<".xcodeproj">> = entry
                     /\ hist[r].act.written # None =>
                          hist[r].act.written[1].path =
                              hist[r].iosFolder \o <<entry, <<"project.pbxproj">>>>

\* Two bundles in the listing, and the run patched the second.
C8_Witness ==
    \E r \in Listed :
        /\ hist[r].data[1] = <<<<"Lib", ".xcodeproj">>, <<"App", ".xcodeproj">>>>
        /\ hist[r].projName = Some(<<"App">>)
        /\ hist[r].act.written # None

\* C9: activateAssociativeDomains emits the notice exactly once if at least
\* one configuration record was set or raised to the threshold during the run,
\* and emits no notice if no record was changed.
C9_NoticeIffChanged ==
    \A r \in Patched :
        LET before == hist[r].act.before[1]
            after == hist[r].act.after[1]
            changed == \E i \in DOMAIN before : after[i] # before[i]
        IN  /\ hist[r].act.notices = IF changed THEN 1 ELSE 0
            /\ Count(hist[r].events, "console.log") = hist[r].act.notices

\* Two records were raised in one run, and one notice was emitted.
C9_Witness ==
    \E r \in Patched :
        /\ Cardinality(hist[r].act.updated) = 2
        /\ Count(hist[r].events, "console.log") = 1

\* C10: an invocation writes the descriptor at most once: exactly once, as its
\* last step, after the project was obtained (parsed, or taken from the build
\* context) and with all mutations in it, when it completes without error; and
\* not at all when it raises an error, so that nothing is persisted.
C10_WrittenOnceOrNever ==
    [][LET run == Last(hist')
           writes == Count(run.events, "writeFileSync")
           obtains == Count(run.events, "parseSync") + Count(run.events, "parseProjectFile")
       IN  /\ writes <= 1
           /\ obtains <= 1
           /\ run.outcome = "ok" =>
                /\ writes = 1
                /\ obtains = 1
                /\ Last(run.events) = "writeFileSync"
                /\ run.act.after # None
                /\ disk' = (run.projFolder[1] \o <<<<"project.pbxproj">>>>
                                :> writeSync(run.act.after[1])) @@ disk
           /\ run.outcome = "error" =>
                /\ writes = 0
                /\ disk' = disk]_vars

\* An invocation that raised a record, emitted the notice and wrote last.
C10_Witness ==
    \E r \in DOMAIN hist :
        /\ hist[r].outcome = "ok"
        /\ hist[r].act.updated # {}
        /\ Len(hist[r].events) >= 5
        /\ Last(hist[r].events) = "writeFileSync"

====
